---- MODULE Spec2Model ----
(***************************************************************************)
(* A model of src/weighting.py: the weight-curve generators, their shared  *)
(* helpers normalize and scale_range, and the formula evaluator func_eval. *)
(*                                                                         *)
(* Every function of the module is synchronous and keeps no state between  *)
(* calls, so a behaviour is one call: Init draws the call (function and    *)
(* arguments) from bounded sets, and the action of that function runs its  *)
(* whole body and records how the call ended (the list it returned, or the *)
(* exception it raised), the warnings it emitted and the helpers it        *)
(* entered.                                                                *)
(*                                                                         *)
(* Numbers.  A Python number is modelled by its exact value: a rational    *)
(* n/d in lowest terms, or one of the three special float values inf, -inf *)
(* and nan (d = 0).  Rounding of finite floats is not modelled, so "equal" *)
(* below is what the specification calls equal within floating-point      *)
(* tolerance; the int/float distinction is dropped.  math.sqrt, math.exp   *)
(* and math.pi have irrational values: they are modelled at a reduced      *)
(* precision (SqrtScale, ExpScale, Sqrt2Pi).                               *)
(***************************************************************************)
EXTENDS Integers, Sequences, FiniteSets, TLC

VARIABLES call, pc, out, warned

vars == <<call, pc, out, warned>>

(***************************************************************************)
(* Python values                                                           *)
(***************************************************************************)
Val(t, n, d, s) == [t |-> t, n |-> n, d |-> d, s |-> s]

RECURSIVE GCD(_, _)
GCD(a, b) == IF b = 0 THEN a ELSE GCD(b, a % b)

Abs(i) == IF i < 0 THEN -i ELSE i

Sign(i) == IF i < 0 THEN -1 ELSE IF i = 0 THEN 0 ELSE 1

\* the number n/d, d # 0, in lowest terms with a positive denominator
Q(n, d) ==
    LET g == GCD(Abs(n), Abs(d))
        s == IF d < 0 THEN -1 ELSE 1
    IN  Val("num", s * (n \div g), s * (d \div g), "")

I(n) == Val("num", n, 1, "")

Inf == Val("num", 1, 0, "")

NegInf == Val("num", -1, 0, "")

NaN == Val("num", 0, 0, "")

None == Val("none", 0, 1, "")

Fn(name) == Val("fn", 0, 1, name)

IsNum(v) == v.t = "num"

IsFinite(v) == v.t = "num" /\ v.d # 0

IsNaN(v) == v.t = "num" /\ v.d = 0 /\ v.n = 0

IsInf(v) == v.t = "num" /\ v.d = 0 /\ v.n # 0

IsZero(v) == v.t = "num" /\ v.d # 0 /\ v.n = 0

(***************************************************************************)
(* Python arithmetic on numbers (float semantics for inf and nan)          *)
(***************************************************************************)
NumNeg(a) == Val("num", -a.n, a.d, "")

NumAdd(a, b) ==
    IF IsNaN(a) \/ IsNaN(b) THEN NaN
    ELSE IF IsInf(a) /\ IsInf(b) THEN (IF a.n = b.n THEN a ELSE NaN)
    ELSE IF IsInf(a) THEN a
    ELSE IF IsInf(b) THEN b
    ELSE LET g == GCD(a.d, b.d)
         IN  Q(a.n * (b.d \div g) + b.n * (a.d \div g), (a.d \div g) * b.d)

NumSub(a, b) == NumAdd(a, NumNeg(b))

NumMul(a, b) ==
    IF IsNaN(a) \/ IsNaN(b) THEN NaN
    ELSE IF IsInf(a) \/ IsInf(b)
         THEN (IF IsZero(a) \/ IsZero(b) THEN NaN
               ELSE Val("num", Sign(a.n) * Sign(b.n), 0, ""))
    ELSE LET g1 == GCD(Abs(a.n), b.d)
             g2 == GCD(Abs(b.n), a.d)
         IN  Q((a.n \div g1) * (b.n \div g2), (a.d \div g2) * (b.d \div g1))

\* a / b for b # 0 (b = 0 raises ZeroDivisionError: see the callers)
NumDiv(a, b) ==
    IF IsNaN(a) \/ IsNaN(b) THEN NaN
    ELSE IF IsInf(b) THEN (IF IsInf(a) THEN NaN ELSE I(0))
    ELSE IF IsInf(a) THEN Val("num", Sign(a.n) * Sign(b.n), 0, "")
    ELSE NumMul(a, Q(b.d, b.n))

NumAbs(a) == Val("num", Abs(a.n), a.d, "")

\* a < b on finite numbers
NumLess(a, b) == a.n * b.d < b.n * a.d

\* int(a) of a finite number: truncation towards zero
NumInt(a) == IF a.n >= 0 THEN a.n \div a.d ELSE -((-a.n) \div a.d)

(***************************************************************************)
(* How a call ends: the list returned or the exception raised, the         *)
(* functions entered (in order) and the warnings emitted                   *)
(***************************************************************************)
Returned(v) == [exc |-> "", val |-> v, trace |-> <<>>, warns |-> <<>>]

Raised(e) == [exc |-> e, val |-> <<>>, trace |-> <<>>, warns |-> <<>>]

\* the outcome o of a body, as the outcome of the function `name`
Enter(name, o) == [o EXCEPT !.trace = <<name>> \o @]

\* outcome o of a callee, seen after the steps of outcome p that preceded it
After(p, o) == [o EXCEPT !.trace = p.trace \o @, !.warns = p.warns \o @]

\* sum(weights): 0 + w1 + w2 + ..., TypeError on a non-number
RECURSIVE SumFrom(_, _, _)
SumFrom(acc, ws, i) ==
    IF i > Len(ws) THEN Returned(acc)
    ELSE IF ~IsNum(ws[i]) THEN Raised("TypeError")
    ELSE SumFrom(NumAdd(acc, ws[i]), ws, i + 1)

PySum(ws) == SumFrom(I(0), ws, 1)

\* range(n) as the sequence 0, 1, ..., n-1 (empty when n <= 0)
Range(n) == [i \in 1..n |-> i - 1]

\* seq[k] with Python's indexing: 0-based, negative k counts from the end
InRange(seq, k) == -Len(seq) <= k /\ k < Len(seq)

GetItem(seq, k) == IF k >= 0 THEN seq[k + 1] ELSE seq[Len(seq) + k + 1]

(***************************************************************************)
(* normalize and scale_range                                               *)
(***************************************************************************)
\* mutant of normalize: an all-zero total is passed over instead of dividing
normalize_skip_zero(weights) ==
    LET tot == PySum(weights)
    IN  Enter("normalize",
          IF tot.exc # "" THEN Raised(tot.exc)
          ELSE IF IsZero(tot.val) THEN Returned(weights)
          ELSE Returned([i \in 1..Len(weights) |->
                            NumDiv(weights[i], tot.val)]))

\* mutant of normalize: divides by the number of weights (a mean, not a sum)
normalize_by_len(weights) ==
    Enter("normalize",
          IF PySum(weights).exc # "" THEN Raised("TypeError")
          ELSE Returned([i \in 1..Len(weights) |->
                            NumDiv(weights[i], I(Len(weights)))]))

normalize(weights) ==
    LET tot == PySum(weights)
    IN  Enter("normalize",
          IF tot.exc # "" THEN Raised(tot.exc)
          ELSE IF \E i \in 1..Len(weights) : IsZero(tot.val)
               THEN Raised("ZeroDivisionError")
          ELSE Returned([i \in 1..Len(weights) |->
                            NumDiv(weights[i], tot.val)]))

\* mutant of scale_range: the step is (end - start) / n, and n = 1 no
\* longer divides by zero
scale_range_step_n(n, start, end) ==
    LET xs == Range(n)
    IN  Enter("scale_range",
          IF \E i \in 1..Len(xs) : IsZero(I(n))
          THEN Raised("ZeroDivisionError")
          ELSE Returned([i \in 1..Len(xs) |->
                   NumAdd(NumDiv(NumMul(I(xs[i]), NumSub(end, start)), I(n)),
                          start)]))

scale_range(n, start, end) ==
    LET xs == Range(n)
    IN  Enter("scale_range",
          IF \E i \in 1..Len(xs) : IsZero(I(n - 1))
          THEN Raised("ZeroDivisionError")
          ELSE Returned([i \in 1..Len(xs) |->
                   NumAdd(NumDiv(NumMul(I(xs[i]), NumSub(end, start)),
                                 I(n - 1)),
                          start)]))

(***************************************************************************)
(* The closed-form curves                                                  *)
(***************************************************************************)
ascending(frames) ==
    LET val == [i \in 1..frames |-> I(i)]
    IN  Enter("ascending", normalize(val))

descending(frames) ==
    LET val == [i \in 1..frames |-> I(frames - i + 1)]
    IN  Enter("descending", normalize(val))

\* [1 / frames] * frames: the division happens once, before the repetition
equal(frames) ==
    Enter("equal",
          IF frames = 0 THEN Raised("ZeroDivisionError")
          ELSE Returned([i \in 1..frames |-> NumDiv(I(1), I(frames))]))

pyramid(frames) ==
    LET half == NumDiv(I(frames - 1), I(2))
        xs   == Range(frames)
        val  == [i \in 1..Len(xs) |->
                    NumAdd(NumSub(half, NumAbs(NumSub(I(xs[i]), half))), I(1))]
    IN  Enter("pyramid", normalize(val))

(***************************************************************************)
(* _warn_bound, and the curves that take a bound                           *)
(***************************************************************************)
\* mutant of _warn_bound: any length other than 2 is an error
_warn_bound_strict(bound, func) ==
    Enter("_warn_bound",
          IF Len(bound) # 2 THEN Raised("ValueError") ELSE Returned(<<>>))

_warn_bound(bound, func) ==
    Enter("_warn_bound",
          IF Len(bound) < 2 THEN Raised("ValueError")
          ELSE IF Len(bound) > 2
               THEN [Returned(<<>>) EXCEPT !.warns = <<"RuntimeWarning">>]
          ELSE Returned(<<>>))

\* math.sqrt(2 * math.pi) = 2.5066..., to one binary digit
Sqrt2Pi == Q(5, 2)

\* math.exp(t) for t <= 0, to ExpScale steps per unit: the Pade value
\* 1 / (1 - t + t^2/2) cut down to a multiple of 1/ExpScale, so that, as for
\* a float, exp(0) = 1 and exp of a very negative number underflows to 0
ExpScale == 16

ExpNonPos(t) ==
    LET u == NumNeg(t)
        p == NumDiv(I(1), NumAdd(NumAdd(I(1), u),
                                 NumDiv(NumMul(u, u), I(2))))
        k == NumMul(p, I(ExpScale))
    IN  Q(k.n \div k.d, ExpScale)

\* one element of the comprehension of gaussian(): None stands for the
\* ZeroDivisionError of 1 / (sqrt(2 pi) * 0)
Density(x, apex, std_dev) ==
    IF IsZero(NumMul(Sqrt2Pi, std_dev)) THEN None
    ELSE LET z == NumDiv(NumSub(x, apex), std_dev)
         IN  NumMul(NumDiv(I(1), NumMul(Sqrt2Pi, std_dev)),
                    ExpNonPos(NumDiv(NumNeg(NumMul(z, z)), I(2))))

DensityCurve(r, apex, std_dev) ==
    IF r.exc # "" THEN r
    ELSE LET val == [i \in 1..Len(r.val) |-> Density(r.val[i], apex, std_dev)]
         IN  IF \E i \in 1..Len(val) : val[i] = None
             THEN After(r, Raised("ZeroDivisionError"))
             ELSE After(r, normalize(val))

gaussian(frames, apex, std_dev, bound) ==
    LET w == _warn_bound(bound, "gaussian")
    IN  Enter("gaussian",
          IF w.exc # "" THEN w
          ELSE DensityCurve(After(w, scale_range(frames, bound[1], bound[2])),
                            apex, std_dev))

\* max(bound) of a non-empty tuple of finite numbers
RECURSIVE MaxFrom(_, _, _)
MaxFrom(best, seq, i) ==
    IF i > Len(seq) THEN best
    ELSE MaxFrom(IF NumLess(best, seq[i]) THEN seq[i] ELSE best, seq, i + 1)

PyMax(seq) == MaxFrom(seq[1], seq, 2)

\* the x axis vector of gaussian_sym()
gaussian_sym_range(frames, bound) ==
    LET max_abs == PyMax(bound)
    IN  scale_range(frames, NumNeg(max_abs), max_abs)

gaussian_sym(frames, std_dev, bound) ==
    LET w == _warn_bound(bound, "gaussian_sym")
    IN  Enter("gaussian_sym",
          IF w.exc # "" THEN w
          ELSE DensityCurve(After(w, gaussian_sym_range(frames, bound)),
                            I(0), std_dev))

(***************************************************************************)
(* divide                                                                  *)
(***************************************************************************)
\* mutant of divide_range: the axis ends at len(weights), without the 0.1
divide_range_no_offset(frames, weights) ==
    scale_range(frames, I(0), I(Len(weights)))

\* the x axis vector of divide(): 0 .. len(weights) - 0.1
divide_range(frames, weights) ==
    scale_range(frames, I(0), NumSub(I(Len(weights)), Q(1, 10)))

\* int(r[x]) for x in range(frames)
divide_indices(frames, weights) ==
    LET r == divide_range(frames, weights).val
    IN  [i \in 1..Len(Range(frames)) |-> NumInt(r[Range(frames)[i] + 1])]

divide(frames, weights) ==
    LET r   == divide_range(frames, weights)
        idx == divide_indices(frames, weights)
    IN  Enter("divide",
          IF r.exc # "" THEN r
          ELSE IF \E i \in 1..Len(idx) : ~InRange(weights, idx[i])
               THEN After(r, Raised("IndexError"))
          ELSE After(r, normalize([i \in 1..Len(idx) |->
                                      GetItem(weights, idx[i])])))

(***************************************************************************)
(* func_eval: the namespace                                                *)
(*                                                                         *)
(* An identifier is a string.  A namespace (a Python dict keyed by name)   *)
(* is a function on Names whose value Unbound marks an absent key.         *)
(***************************************************************************)
\* the eight built-ins func_eval puts under '__builtins__'
BuiltinNames == {"sum", "abs", "max", "min", "len", "pow", "range", "round"}

\* members of math.__dict__: two public ones and a private one
MathNames == {"sqrt", "inf", "__name__"}

\* identifiers an expression of the model may use: the above, the names
\* func_eval binds, a name bound nowhere (foo), a name only an expression
\* binds (y) and a built-in of Python that func_eval does not list (open)
Names ==
    BuiltinNames \cup MathNames \cup
        {"x", "frames", "__builtins__", "foo", "y", "open"}

\* k.startswith("_")
StartsWithUnderscore(k) == k \in {"__name__", "__builtins__"}

Unbound == Val("unbound", 0, 1, "")

Str(s) == Val("str", 0, 1, s)

Dict(s) == Val("dict", 0, 1, s)

\* math.__dict__
MathDict ==
    [k \in Names |->
        CASE k = "sqrt" -> Fn("sqrt")
          [] k = "inf" -> Inf
          [] k = "__name__" -> Str("math")
          [] OTHER -> Unbound]

\* mutant of MathPublic: the whole of math.__dict__, private names too
MathPublic_unfiltered == MathDict

\* {k: v for k, v in math.__dict__.items() if not k.startswith("_")}
MathPublic ==
    [k \in Names |-> IF StartsWithUnderscore(k) THEN Unbound ELSE MathDict[k]]

\* mutant of Namespace: frames is the last index, not the length
Namespace_last_index(nums) ==
    [k \in Names |->
        CASE k = "frames" -> I(Len(nums) - 1)
          [] k = "x" -> None
          [] k = "__builtins__" -> Dict("__builtins__")
          [] OTHER -> MathPublic[k]]

\* namespace |= {'frames': len(nums), 'x': None, '__builtins__': {...}}
Namespace(nums) ==
    [k \in Names |->
        CASE k = "frames" -> I(Len(nums))
          [] k = "x" -> None
          [] k = "__builtins__" -> Dict("__builtins__")
          [] OTHER -> MathPublic[k]]

\* the dict bound to '__builtins__': the names eval() falls back to
Builtins == [k \in Names |-> IF k \in BuiltinNames THEN Fn(k) ELSE Unbound]

(***************************************************************************)
(* func_eval: expressions                                                  *)
(*                                                                         *)
(* The text of an expression is modelled by its syntax tree:               *)
(*   <<"lit", v>>         a numeric literal (v >= 0)                       *)
(*   <<"name", id>>       an identifier                                    *)
(*   <<"neg", e>>         -e                                               *)
(*   <<"bin", op, l, r>>  l + r, l / r                                     *)
(*   <<"call", f, a>>     f(a)                                             *)
(*   <<"walrus", id, e>>  (id := e)                                        *)
(*   <<"malformed">>      a text that is no expression, such as "x +"      *)
(***************************************************************************)
Lit(v) == <<"lit", v>>

Name(id) == <<"name", id>>

Neg(e) == <<"neg", e>>

Bin(op, l, r) == <<"bin", op, l, r>>

Call(f, a) == <<"call", f, a>>

Walrus(id, e) == <<"walrus", id, e>>

Malformed == <<"malformed">>

\* compile() of "[(func) for x in nums]" rejects a text that does not parse
\* and an assignment expression that rebinds the iteration variable x
RECURSIVE SyntaxOK(_)
SyntaxOK(e) ==
    CASE e[1] = "malformed" -> FALSE
      [] e[1] = "neg" -> SyntaxOK(e[2])
      [] e[1] = "bin" -> SyntaxOK(e[3]) /\ SyntaxOK(e[4])
      [] e[1] = "call" -> SyntaxOK(e[2]) /\ SyntaxOK(e[3])
      [] e[1] = "walrus" -> e[2] # "x" /\ SyntaxOK(e[3])
      [] OTHER -> TRUE

\* the result of evaluating an expression: a value or an exception, and the
\* globals as the evaluation left them
Value(v, g) == [exc |-> "", v |-> v, g |-> g]

Throw(e, g) == [exc |-> e, v |-> None, g |-> g]

\* a name inside the comprehension: x is its local; any other name is looked
\* up in the globals, then in globals['__builtins__']
Lookup(id, x, g) ==
    IF id = "x" THEN Value(x, g)
    ELSE IF g[id] # Unbound THEN Value(g[id], g)
    ELSE IF Builtins[id] # Unbound THEN Value(Builtins[id], g)
    ELSE Throw("NameError", g)

\* math.sqrt of a finite number >= 0, to SqrtScale steps per unit of the
\* denominator: exact on the squares the scale can express
SqrtScale == 4

ISqrt(m) == CHOOSE r \in 0..m : r * r <= m /\ (r + 1) * (r + 1) > m

Sqrt(a) == Q(ISqrt(a.n * a.d * SqrtScale * SqrtScale), a.d * SqrtScale)

\* f(a) for the callables the expressions of the model call
Apply(f, a, g) ==
    IF f.t # "fn" THEN Throw("TypeError", g)
    ELSE CASE f.s = "sqrt" ->
                IF ~IsNum(a) THEN Throw("TypeError", g)
                ELSE IF IsNaN(a) THEN Value(NaN, g)
                ELSE IF a.n < 0 THEN Throw("ValueError", g)
                ELSE IF IsInf(a) THEN Value(Inf, g)
                ELSE Value(Sqrt(a), g)
           [] f.s = "abs" ->
                IF IsNum(a) THEN Value(NumAbs(a), g) ELSE Throw("TypeError", g)
           [] f.s = "len" ->
                IF a.t = "dict" THEN Value(I(Cardinality(BuiltinNames)), g)
                ELSE Throw("TypeError", g)

BinOp(op, l, r, g) ==
    IF ~IsNum(l) \/ ~IsNum(r) THEN Throw("TypeError", g)
    ELSE CASE op = "+" -> Value(NumAdd(l, r), g)
           [] op = "/" -> IF IsZero(r) THEN Throw("ZeroDivisionError", g)
                          ELSE Value(NumDiv(l, r), g)

\* one evaluation of expression e with the comprehension's x, in globals g
RECURSIVE Eval(_, _, _)
Eval(e, x, g) ==
    CASE e[1] = "lit" -> Value(e[2], g)
      [] e[1] = "name" -> Lookup(e[2], x, g)
      [] e[1] = "neg" ->
            LET a == Eval(e[2], x, g)
            IN  IF a.exc # "" THEN a
                ELSE IF ~IsNum(a.v) THEN Throw("TypeError", a.g)
                ELSE Value(NumNeg(a.v), a.g)
      [] e[1] = "bin" ->
            LET l == Eval(e[3], x, g)
            IN  IF l.exc # "" THEN l
                ELSE LET r == Eval(e[4], x, l.g)
                     IN  IF r.exc # "" THEN r ELSE BinOp(e[2], l.v, r.v, r.g)
      [] e[1] = "call" ->
            LET f == Eval(e[2], x, g)
            IN  IF f.exc # "" THEN f
                ELSE LET a == Eval(e[3], x, f.g)
                     IN  IF a.exc # "" THEN a ELSE Apply(f.v, a.v, a.g)
      [] e[1] = "walrus" ->
            LET a == Eval(e[3], x, g)
            IN  IF a.exc # "" THEN a
                ELSE Value(a.v, [a.g EXCEPT ![e[2]] = a.v])

\* str(nums) inside the f-string: a list display whose items are the reprs
\* of the numbers; the repr of a negative number is a minus sign and a literal
Repr(v) == IF v.n < 0 THEN Neg(Lit(NumNeg(v))) ELSE Lit(v)

ListDisplay(nums) == [i \in 1..Len(nums) |-> Repr(nums[i])]

\* the iterable of the comprehension: the list display, evaluated in g
Iterable(items, g) == [i \in 1..Len(items) |-> Eval(items[i], None, g).v]

\* mutant of Comprehension: an element that raises is left out and the loop
\* goes on (the exception is swallowed)
RECURSIVE Comprehension_swallow(_, _, _, _, _)
Comprehension_swallow(func, iterable, i, g, acc) ==
    IF i > Len(iterable) THEN Returned(acc)
    ELSE LET r == Eval(func, iterable[i], g)
         IN  IF r.exc # ""
             THEN Comprehension_swallow(func, iterable, i + 1, r.g, acc)
             ELSE Comprehension_swallow(func, iterable, i + 1, r.g,
                                        Append(acc, r.v))

\* [(func) for x in iterable]: the elements in order, each in the globals the
\* one before left; the first exception ends the loop and nothing is returned
RECURSIVE Comprehension(_, _, _, _, _)
Comprehension(func, iterable, i, g, acc) ==
    IF i > Len(iterable) THEN Returned(acc)
    ELSE LET r == Eval(func, iterable[i], g)
         IN  IF r.exc # "" THEN Raised(r.exc)
             ELSE Comprehension(func, iterable, i + 1, r.g, Append(acc, r.v))

func_eval(func, nums) ==
    LET namespace == Namespace(nums)
    IN  Enter("func_eval",
          IF ~SyntaxOK(func) THEN Raised("SyntaxError")
          ELSE Comprehension(func, Iterable(ListDisplay(nums), namespace), 1,
                             namespace, <<>>))

custom(frames, func, bound) ==
    LET w == _warn_bound(bound, func)
    IN  Enter("custom",
          IF w.exc # "" THEN w
          ELSE LET r == After(w, scale_range(frames, bound[1], bound[2]))
               IN  IF r.exc # "" THEN r
                   ELSE LET val == After(r, func_eval(func, r.val))
                        IN  IF val.exc # "" THEN val
                            ELSE After(val, normalize(val.val)))

(***************************************************************************)
(* The calls: bounded sets of arguments                                    *)
(***************************************************************************)
MaxFrames == 5

MaxLen == 3

MaxDivideFrames == 10

SeqsUpTo(S, n) == UNION {[1..k -> S] : k \in 0..n}

Ints(lo, hi) == {I(n) : n \in lo..hi}

FrameCounts == -1..MaxFrames

NormalizeCalls ==
    {[op |-> "normalize", weights |-> ws] : ws \in SeqsUpTo(Ints(-1, 2), MaxLen)}

ScaleRangeCalls ==
    {[op |-> "scale_range", n |-> n, start |-> a, end |-> b] :
        n \in FrameCounts, a \in Ints(-2, 2), b \in Ints(-2, 2)}

SimpleCalls ==
    {[op |-> f, frames |-> n] :
        f \in {"ascending", "descending", "equal", "pyramid"}, n \in FrameCounts}

Bounds == SeqsUpTo({I(-2), I(0), I(1)}, 3)

GaussianCalls ==
    {[op |-> "gaussian", frames |-> n, apex |-> a, std_dev |-> sd, bound |-> b] :
        n \in FrameCounts, a \in Ints(0, 1), sd \in Ints(0, 2), b \in Bounds}

GaussianSymCalls ==
    {[op |-> "gaussian_sym", frames |-> n, std_dev |-> sd, bound |-> b] :
        n \in FrameCounts, sd \in Ints(0, 2), b \in Bounds}

DivideCalls ==
    {[op |-> "divide", frames |-> n, weights |-> ws] :
        n \in -1..MaxDivideFrames, ws \in SeqsUpTo(Ints(1, 2), MaxLen)}

CurveCalls ==
    NormalizeCalls \cup ScaleRangeCalls \cup SimpleCalls \cup GaussianCalls
        \cup GaussianSymCalls \cup DivideCalls

\* expressions: every identifier and a few literals on their own, ...
Atoms == {Lit(I(n)) : n \in 0..2} \cup {Name(id) : id \in Names}

\* ... the operands of compound expressions, ...
Operands ==
    {Lit(I(1))} \cup {Name(id) : id \in {"x", "frames", "inf", "foo", "y"}}

Callees == {Name(id) : id \in {"sqrt", "abs", "len", "foo", "x"}}

Targets == {"x", "frames", "y"}

Sums == {Bin(op, l, r) : op \in {"+", "/"}, l \in Operands, r \in Operands}

Assignments == {Walrus(id, e) : id \in Targets, e \in Operands}

\* ... one operator applied to operands, ...
Simple ==
    {Neg(e) : e \in Operands} \cup Sums \cup Assignments
        \cup {Call(f, a) : f \in Callees, a \in Operands \cup {Name("__builtins__")}}

\* ... and an operator applied to a compound expression
Nested ==
    {Bin(op, l, r) : op \in {"+", "/"}, l \in Assignments, r \in Operands}
        \cup {Walrus(id, e) : id \in Targets, e \in Sums}
        \cup {Call(f, a) : f \in Callees, a \in Sums}

Exprs == Atoms \cup Simple \cup Nested \cup {Malformed}

MaxCoords == 3

Coords == SeqsUpTo({I(-1), I(0), I(4)}, MaxCoords)

FuncEvalCalls ==
    {[op |-> "func_eval", func |-> e, nums |-> c] : e \in Exprs, c \in Coords}

MaxCustomFrames == 3

CustomCalls ==
    {[op |-> "custom", frames |-> n, func |-> e, bound |-> b] :
        n \in 0..MaxCustomFrames,
        e \in Atoms \cup Simple \cup {Malformed},
        b \in Bounds}

(***************************************************************************)
(* The state machine: one call, from its entry to its return or raise      *)
(***************************************************************************)
Finish(o) ==
    /\ pc = "call"
    /\ pc' = IF o.exc = "" THEN "returned" ELSE "raised"
    /\ out' = o
    /\ warned' = warned \o o.warns
    /\ UNCHANGED call

Normalize == call.op = "normalize" /\ Finish(normalize(call.weights))

ScaleRange ==
    call.op = "scale_range" /\ Finish(scale_range(call.n, call.start, call.end))

Ascending == call.op = "ascending" /\ Finish(ascending(call.frames))

Descending == call.op = "descending" /\ Finish(descending(call.frames))

Equal == call.op = "equal" /\ Finish(equal(call.frames))

Pyramid == call.op = "pyramid" /\ Finish(pyramid(call.frames))

Gaussian ==
    /\ call.op = "gaussian"
    /\ Finish(gaussian(call.frames, call.apex, call.std_dev, call.bound))

GaussianSym ==
    /\ call.op = "gaussian_sym"
    /\ Finish(gaussian_sym(call.frames, call.std_dev, call.bound))

Divide == call.op = "divide" /\ Finish(divide(call.frames, call.weights))

FuncEval == call.op = "func_eval" /\ Finish(func_eval(call.func, call.nums))

Custom ==
    call.op = "custom" /\ Finish(custom(call.frames, call.func, call.bound))

InitWith(calls) ==
    /\ call \in calls
    /\ pc = "call"
    /\ out = Returned(<<>>)
    /\ warned = <<>>

NextCurves ==
    \/ Normalize
    \/ ScaleRange
    \/ Ascending
    \/ Descending
    \/ Equal
    \/ Pyramid
    \/ Gaussian
    \/ GaussianSym
    \/ Divide

\* the curves and helpers that evaluate no expression
InitCurves == InitWith(CurveCalls)

SpecCurves == InitCurves /\ [][NextCurves]_vars

\* the formula evaluator, called directly
InitEval == InitWith(FuncEvalCalls)

NextEval == FuncEval

SpecEval == InitEval /\ [][NextEval]_vars

\* every curve generator, custom included
Init == InitWith(CurveCalls \cup CustomCalls)

Next == NextCurves \/ Custom

Spec == Init /\ [][Next]_vars

(***************************************************************************)
(* What the claims need to say                                             *)
(***************************************************************************)
Ended(op) == call.op = op /\ pc # "call"

ReturnedFrom(op) == call.op = op /\ pc = "returned"

RaisedFrom(op, e) ==
    call.op = op /\ pc = "raised" /\ out.exc = e /\ out.val = <<>>

\* the total of a list of numbers
Total(ws) == PySum(ws).val

SumsToOne(ws) == Total(ws) = I(1)

(***************************************************************************)
(* C5  normalize                                                           *)
(***************************************************************************)
\* C5 as claimed: normalize raises the division error for every input whose
\* elements sum to zero, the empty sequence included, and never returns then;
\* for every other input it returns, in order, weights[i] / total.
C5_AsClaimed ==
    Ended("normalize") =>
        LET ws == call.weights
        IN  IF IsZero(Total(ws))
            THEN RaisedFrom("normalize", "ZeroDivisionError")
            ELSE /\ pc = "returned"
                 /\ Len(out.val) = Len(ws)
                 /\ \A i \in 1..Len(ws) : out.val[i] = NumDiv(ws[i], Total(ws))

\* C5 as amended: normalize raises ZeroDivisionError for every non-empty
\* input whose elements sum to zero and never returns a sequence then; for
\* the empty sequence it returns the empty sequence; for every other input it
\* returns a sequence of the same length and order whose element i is
\* weights[i] divided by the total.
C5_Normalize ==
    Ended("normalize") =>
        LET ws == call.weights
        IN  IF ws = <<>>
            THEN pc = "returned" /\ out.val = <<>>
            ELSE IF IsZero(Total(ws))
            THEN RaisedFrom("normalize", "ZeroDivisionError")
            ELSE /\ pc = "returned"
                 /\ Len(out.val) = Len(ws)
                 /\ \A i \in 1..Len(ws) : out.val[i] = NumDiv(ws[i], Total(ws))

\* normalize([1, -1]) and the like: a zero total of non-zero weights raised
C5_Witness ==
    /\ RaisedFrom("normalize", "ZeroDivisionError")
    /\ Len(call.weights) = 2
    /\ ~IsZero(call.weights[1])

(***************************************************************************)
(* C6, C7  scale_range                                                     *)
(***************************************************************************)
\* C6 as claimed: scale_range(n, start, end) fails for every n < 2 (1, 0 and
\* negative n) and never returns a sequence then.
C6_AsClaimed ==
    Ended("scale_range") /\ call.n < 2 => pc = "raised" /\ out.val = <<>>

\* C6 as amended: scale_range(n, start, end) fails (ZeroDivisionError) for
\* n = 1 and never returns a singleton; for n = 0 and negative n it does not
\* fail and returns the empty sequence.
C6_ScaleRangeBelowTwo ==
    Ended("scale_range") /\ call.n < 2 =>
        IF call.n = 1 THEN RaisedFrom("scale_range", "ZeroDivisionError")
        ELSE pc = "returned" /\ out.val = <<>>

C6_Witness == RaisedFrom("scale_range", "ZeroDivisionError") /\ call.n = 1

\* C7: for n >= 2, scale_range(n, a, b) returns n elements, element i being
\* a + i*(b-a)/(n-1): the first is a, the last is b, and the elements are
\* strictly monotonic when a # b and all equal to a when a = b.
C7_ScaleRange ==
    Ended("scale_range") /\ call.n >= 2 =>
        LET a == call.start
            b == call.end
            n == call.n
            step == NumDiv(NumSub(b, a), I(n - 1))
            r == out.val
        IN  /\ pc = "returned"
            /\ Len(r) = n
            /\ \A i \in 0..(n - 1) : r[i + 1] = NumAdd(a, NumMul(I(i), step))
            /\ r[1] = a
            /\ r[n] = b
            /\ NumLess(a, b) => \A i \in 1..(n - 1) : NumLess(r[i], r[i + 1])
            /\ NumLess(b, a) => \A i \in 1..(n - 1) : NumLess(r[i + 1], r[i])
            /\ a = b => \A i \in 1..n : r[i] = a

C7_Witness ==
    /\ ReturnedFrom("scale_range")
    /\ call.n >= 3
    /\ NumLess(call.end, call.start)
    /\ Len(out.val) = call.n

(***************************************************************************)
(* C9  gaussian_sym                                                        *)
(***************************************************************************)
\* C9 as claimed: for frames >= 2 and a bound of at least two components,
\* gaussian_sym evaluates the density over the coordinates that run from -m
\* to +m with m = max(|bound[0]|, |bound[1]|): they are symmetric about 0
\* and depend only on the absolute values of the first two components.
C9_AsClaimed ==
    ReturnedFrom("gaussian_sym") /\ call.frames >= 2 /\ Len(call.bound) >= 2 =>
        LET b0 == NumAbs(call.bound[1])
            b1 == NumAbs(call.bound[2])
            m  == IF NumLess(b0, b1) THEN b1 ELSE b0
            r  == gaussian_sym_range(call.frames, call.bound).val
            n  == call.frames
        IN  /\ r = scale_range(n, NumNeg(m), m).val
            /\ \A i \in 1..n : r[i] = NumNeg(r[n + 1 - i])

(***************************************************************************)
(* C10  divide                                                             *)
(***************************************************************************)
\* floor(i * (L - 0.1) / (frames - 1)), in integers
BucketOf(i, L, frames) == (i * (10 * L - 1)) \div (10 * (frames - 1))

\* C10: for frames >= 2 and a non-empty weights of length L, divide never
\* indexes weights out of bounds: the index looked up for target i is
\* floor(i*(L-0.1)/(frames-1)), it lies in 0..L-1, the indices do not
\* decrease, start at 0 and end at L-1, and the raw output is weights at
\* those indices (frames = 10, weights = [1, 2]: five 1s, then five 2s).
C10_Divide ==
    Ended("divide") /\ call.frames >= 2 /\ Len(call.weights) >= 1 =>
        LET n   == call.frames
            ws  == call.weights
            L   == Len(ws)
            idx == divide_indices(n, ws)
            raw == [i \in 1..n |-> ws[BucketOf(i - 1, L, n) + 1]]
        IN  /\ out.exc # "IndexError"
            /\ Len(idx) = n
            /\ \A i \in 1..n : idx[i] = BucketOf(i - 1, L, n) /\ idx[i] \in 0..(L - 1)
            /\ \A i \in 1..(n - 1) : idx[i] <= idx[i + 1]
            /\ idx[1] = 0
            /\ idx[n] = L - 1
            /\ pc = "returned"
            /\ out.val = normalize(raw).val
            /\ (n = 10 /\ ws = <<I(1), I(2)>> =>
                   out.val = [i \in 1..10 |-> IF i <= 5 THEN Q(1, 15) ELSE Q(2, 15)])

C10_Witness ==
    /\ ReturnedFrom("divide")
    /\ call.frames = 10
    /\ call.weights = <<I(1), I(2)>>
    /\ out.val[5] = Q(1, 15)
    /\ out.val[6] = Q(2, 15)

(***************************************************************************)
(* C8  every curve generator                                               *)
(***************************************************************************)
ClosedForm == {"ascending", "descending", "equal", "pyramid"}

Parametric == {"gaussian", "gaussian_sym", "custom", "divide"}

\* what the expression of a custom() call produced, before normalize
CustomRaw ==
    func_eval(call.func,
              scale_range(call.frames, call.bound[1], call.bound[2]).val).val

\* C8 as claimed: for every frame count n >= 1, ascending, descending, equal
\* and pyramid return exactly n weights that sum to 1, and any sequence that
\* gaussian, gaussian_sym, custom or divide returns has exactly n elements
\* that sum to 1.
C8_AsClaimed ==
    pc # "call" /\ call.op \in ClosedForm \cup Parametric /\ call.frames >= 1 =>
        /\ call.op \in ClosedForm => pc = "returned"
        /\ pc = "returned" => Len(out.val) = call.frames /\ SumsToOne(out.val)

\* C8 as amended: as claimed for ascending, descending, equal, pyramid,
\* gaussian, gaussian_sym and divide; a sequence returned by custom has
\* exactly n elements, and they sum to 1 provided every value the expression
\* produced is finite: when the expression produced inf, -inf or nan, the
\* returned weights contain nan and do not sum to 1.
C8_Curves ==
    pc # "call" /\ call.op \in ClosedForm \cup Parametric /\ call.frames >= 1 =>
        /\ call.op \in ClosedForm => pc = "returned"
        /\ pc = "returned" => Len(out.val) = call.frames
        /\ pc = "returned" /\ call.op # "custom" => SumsToOne(out.val)
        /\ pc = "returned" /\ call.op = "custom" =>
              IF \A i \in 1..Len(CustomRaw) : IsFinite(CustomRaw[i])
              THEN SumsToOne(out.val)
              ELSE (\E i \in 1..Len(out.val) : IsNaN(out.val[i]))
                      /\ ~SumsToOne(out.val)

\* custom(3, ...) returned three distinct finite weights that sum to 1
C8_Witness ==
    /\ ReturnedFrom("custom")
    /\ call.frames = 3
    /\ SumsToOne(out.val)
    /\ out.val[1] # out.val[2]
    /\ out.val[2] # out.val[3]

(***************************************************************************)
(* C4  custom and its bound                                                *)
(***************************************************************************)
\* how a call ended, for comparing two calls
Ending(o) == <<o.exc, o.val>>

\* C4: custom validates bound before anything else.  With fewer than 2
\* components it raises the domain error (ValueError) having entered neither
\* scale_range nor func_eval.  With more than 2 components it emits one
\* warning, the validation does not fail (the call goes on to scale_range),
\* and the call ends as the call with only the first two components ends:
\* where that call returns a result, it returns the same result.
C4_Custom ==
    Ended("custom") =>
        LET b   == call.bound
            two == custom(call.frames, call.func, SubSeq(b, 1, 2))
        IN  /\ Len(b) < 2 =>
                 /\ RaisedFrom("custom", "ValueError")
                 /\ out.trace = <<"custom", "_warn_bound">>
                 /\ warned = <<>>
            /\ Len(b) > 2 =>
                 /\ warned = <<"RuntimeWarning">>
                 /\ SubSeq(out.trace, 1, 3) = <<"custom", "_warn_bound", "scale_range">>
                 /\ Ending(out) = Ending(two)
                 /\ two.exc = "" => pc = "returned" /\ out.val = two.val
                 /\ two.warns = <<>>
            /\ Len(b) = 2 => warned = <<>>

\* a call with a bound of three components went through and returned weights
C4_Witness ==
    /\ ReturnedFrom("custom")
    /\ Len(call.bound) = 3
    /\ call.bound[3] # call.bound[2]
    /\ warned = <<"RuntimeWarning">>
    /\ Len(out.val) = 3

(***************************************************************************)
(* C1, C2, C3  func_eval                                                   *)
(***************************************************************************)
RECURSIVE HasWalrus(_)
HasWalrus(e) ==
    CASE e[1] = "walrus" -> TRUE
      [] e[1] = "neg" -> HasWalrus(e[2])
      [] e[1] = "bin" -> HasWalrus(e[3]) \/ HasWalrus(e[4])
      [] e[1] = "call" -> HasWalrus(e[2]) \/ HasWalrus(e[3])
      [] OTHER -> FALSE

\* the identifiers an expression refers to
RECURSIVE Refs(_)
Refs(e) ==
    CASE e[1] = "name" -> {e[2]}
      [] e[1] = "neg" -> Refs(e[2])
      [] e[1] = "bin" -> Refs(e[3]) \cup Refs(e[4])
      [] e[1] = "call" -> Refs(e[2]) \cup Refs(e[3])
      [] e[1] = "walrus" -> Refs(e[3])
      [] OTHER -> {}

\* the identifiers an expression binds with :=
RECURSIVE Bound(_)
Bound(e) ==
    CASE e[1] = "neg" -> Bound(e[2])
      [] e[1] = "bin" -> Bound(e[3]) \cup Bound(e[4])
      [] e[1] = "call" -> Bound(e[2]) \cup Bound(e[3])
      [] e[1] = "walrus" -> {e[2]} \cup Bound(e[3])
      [] OTHER -> {}

\* the names the documentation of func_eval allows
Allowed ==
    {k \in MathNames : ~StartsWithUnderscore(k)} \cup {"x", "frames"}
        \cup BuiltinNames

\* the value of an expression "with x bound to xv and frames bound to n":
\* one evaluation in the documented names, whatever other elements did
Documented(n) ==
    [k \in Names |->
        CASE k = "frames" -> I(n)
          [] k = "sqrt" -> Fn("sqrt")
          [] k = "inf" -> Inf
          [] k = "__builtins__" -> Dict("__builtins__")
          [] OTHER -> Unbound]

ValueAt(e, xv, n) == Eval(e, xv, Documented(n))

\* C1 as claimed: for every expression that evaluates successfully and every
\* coordinate sequence c of length n, func_eval returns exactly n results in
\* element order, result i being the value of the expression with x bound to
\* c[i] and frames bound to n.
C1_AsClaimed ==
    ReturnedFrom("func_eval") =>
        LET c == call.nums
        IN  /\ Len(out.val) = Len(c)
            /\ \A i \in 1..Len(c) :
                  out.val[i] = ValueAt(call.func, c[i], Len(c)).v

\* C1 as amended: the same, for every expression that evaluates successfully
\* and contains no assignment expression (:=).
C1_FuncEval ==
    ReturnedFrom("func_eval") /\ ~HasWalrus(call.func) =>
        LET c == call.nums
        IN  /\ Len(out.val) = Len(c)
            /\ \A i \in 1..Len(c) :
                  /\ ValueAt(call.func, c[i], Len(c)).exc = ""
                  /\ out.val[i] = ValueAt(call.func, c[i], Len(c)).v

\* an expression that reads both x and frames, over three coordinates
C1_Witness ==
    /\ ReturnedFrom("func_eval")
    /\ {"x", "frames"} \subseteq Refs(call.func)
    /\ ~HasWalrus(call.func)
    /\ Len(call.nums) = 3
    /\ out.val[1] # out.val[3]

\* the elements of c at which the expression raises, each taken on its own
RaisingAt(e, c) == {i \in 1..Len(c) : ValueAt(e, c[i], Len(c)).exc # ""}

Least(S) == CHOOSE i \in S : \A j \in S : i <= j

Underlying ==
    {"SyntaxError", "NameError", "TypeError", "ValueError", "ZeroDivisionError"}

====
